---- MODULE Spec2Model ----
(***************************************************************************)
(* Model of the idiomatic-rust examples:                                   *)
(*   typestate/src/main.rs        Light, Luz<S>, Lumiere<S>                *)
(*   extensiontraits/src/*.rs     Factorial for i32, Urgency for String    *)
(*   builder/src/person.rs        Person builder                           *)
(* Each example is an independent program; each has its own specification. *)
(***************************************************************************)
EXTENDS Integers, Sequences, FiniteSets, TLC

VARIABLES
    light,      \* the naive Light { status, intensity }
    luz,        \* the live Luz<S> binding: its type parameter S
    lumiere,    \* the live Lumiere<S> binding: its state field
    calls,      \* the method calls made so far, in order, with their results
    self_,      \* factorial: the receiver *self
    res,        \* factorial: the accumulator
    n,          \* factorial: the loop variable (next value the range yields)
    pc,         \* factorial: "loop", "done" or "panicked"
    iters,      \* factorial: how many times the loop body ran
    checked,    \* factorial: whether the build has overflow checks (debug)
    s,          \* urgency: the String, as a sequence of chars
    s0,         \* urgency: the String before any call
    ucalls,     \* urgency: the calls made so far
    person,     \* builder: the Person value
    pcall       \* builder: the call that produced person

lightVars == <<light, luz, lumiere, calls>>
factVars == <<self_, res, n, pc, iters, checked>>
urgVars == <<s, s0, ucalls>>
personVars == <<person, pcall>>
vars == <<light, luz, lumiere, calls, self_, res, n, pc, iters, checked,
          s, s0, ucalls, person, pcall>>

----------------------------------------------------------------------------
(* Bounds *)

\* how many method calls a run of the typestate example makes
MaxCalls == 4

\* the u8 arguments tried for regulate_intensity
Levels == {0, 1, 10, 200, 220, 255}

----------------------------------------------------------------------------
(* typestate/src/main.rs : the naive Light *)

Light_new == [status |-> FALSE, intensity |-> 0]

Light_is_on(l) == l.status

\* faulty variant: turning off forgets to clear the intensity
Light_toggle_keeps_intensity(l) ==
    [status |-> ~l.status,
     intensity |-> IF Light_is_on(l) THEN l.intensity ELSE 10]

\* faulty variant: status is set instead of flipped
Light_toggle_sticky(l) ==
    [status |-> TRUE,
     intensity |-> IF Light_is_on(l) THEN 0 ELSE 10]

\* faulty variant: the Off -> On transition assigns no default intensity
Light_toggle_no_default(l) ==
    [status |-> ~l.status,
     intensity |-> IF Light_is_on(l) THEN 0 ELSE l.intensity]

Light_toggle(l) ==
    LET i == IF Light_is_on(l) THEN 0 ELSE 10
    IN  [status |-> ~l.status, intensity |-> i]

\* faulty variant: the is_on() check is missing
Light_regulate_intensity_unguarded(l, intensity) ==
    [l EXCEPT !.intensity = intensity]

Light_regulate_intensity(l, intensity) ==
    IF Light_is_on(l) THEN [l EXCEPT !.intensity = intensity] ELSE l

----------------------------------------------------------------------------
(* typestate/src/main.rs : Luz<S>, the phantom-marker typestate *)

LuzOff_new == [marker |-> "LuzOff"]

LuzOn_toggle(z) == [marker |-> "LuzOff"]

LuzOff_toggle(z) == [marker |-> "LuzOn"]

LuzOn_is_on(z) == TRUE

LuzOff_is_on(z) == FALSE

\* toggle() resolved on the static type of the binding
Luz_toggle(z) == IF z.marker = "LuzOn" THEN LuzOn_toggle(z) ELSE LuzOff_toggle(z)

\* is_on() resolved on the static type of the binding
Luz_is_on(z) == IF z.marker = "LuzOn" THEN LuzOn_is_on(z) ELSE LuzOff_is_on(z)

----------------------------------------------------------------------------
(* typestate/src/main.rs : Lumiere<S>, the data-bearing typestate *)

\* struct LumiereOff();  struct LumiereOn(u8);
LumiereOff == [tag |-> "LumiereOff"]

LumiereOn(v) == [tag |-> "LumiereOn", f0 |-> v]

LumiereOn_state_is_on(st) == TRUE

LumiereOff_state_is_on(st) == FALSE

\* impl<S: LumiereState> Lumiere<S>::is_on : self.state.is_on()
Lumiere_is_on(l) ==
    IF l.state.tag = "LumiereOn" THEN LumiereOn_state_is_on(l.state)
    ELSE LumiereOff_state_is_on(l.state)

LumiereOff_new == [state |-> LumiereOff]

LumiereOff_toggle(l) == [state |-> LumiereOn(0)]

LumiereOn_toggle(l) == [state |-> LumiereOff]

\* faulty variant: the new level is added to the old one instead of replacing it
LumiereOn_regulate_intensity_adds(l, intensity) ==
    [state |-> LumiereOn((l.state.f0 + intensity) % 256)]

LumiereOn_regulate_intensity(l, intensity) ==
    [l EXCEPT !.state = LumiereOn(intensity)]

LumiereOn_get_intensity(l) == l.state.f0

\* The receiver type of each method is the Self type of its impl block: the
\* method exists only for a binding of that type.

\* impl Lumiere<LumiereOff> { fn toggle(self) }
LumiereOff_toggle_receiver(l) == l.state.tag = "LumiereOff"

\* impl Lumiere<LumiereOn> { fn toggle(self) }
LumiereOn_toggle_receiver(l) == l.state.tag = "LumiereOn"

\* faulty variant: regulate_intensity sits in an impl block for every state
regulate_intensity_any_receiver(l) == TRUE

\* impl Lumiere<LumiereOn> { fn regulate_intensity(&mut self, ..) }
regulate_intensity_receiver(l) == l.state.tag = "LumiereOn"

\* impl Lumiere<LumiereOn> { fn get_intensity(&self) }
get_intensity_receiver(l) == l.state.tag = "LumiereOn"

\* toggle() resolved on the static type of the binding
Lumiere_toggle(l) ==
    IF LumiereOn_toggle_receiver(l) THEN LumiereOn_toggle(l) ELSE LumiereOff_toggle(l)

----------------------------------------------------------------------------
(* The calls of a run of the typestate example *)

Call(target, op, args, pre, ret) ==
    [target |-> target, op |-> op, args |-> args, pre |-> pre, ret |-> ret]

LightInit ==
    /\ light = Light_new
    /\ luz = LuzOff_new
    /\ lumiere = LumiereOff_new
    /\ calls = <<>>

\* light.toggle()
ToggleLight ==
    /\ Len(calls) < MaxCalls
    /\ light' = Light_toggle(light)
    /\ calls' = Append(calls, Call("Light", "toggle", <<>>, Light_is_on(light), <<>>))
    /\ UNCHANGED <<luz, lumiere>>

\* light.regulate_intensity(v)
RegulateLight(v) ==
    /\ Len(calls) < MaxCalls
    /\ light' = Light_regulate_intensity(light, v)
    /\ calls' = Append(calls, Call("Light", "regulate_intensity", <<v>>,
                                   Light_is_on(light), <<>>))
    /\ UNCHANGED <<luz, lumiere>>

\* let luz = luz.toggle();   on a Luz<LuzOff>
ToggleLuzOff ==
    /\ Len(calls) < MaxCalls
    /\ luz.marker = "LuzOff"
    /\ luz' = LuzOff_toggle(luz)
    /\ calls' = Append(calls, Call("Luz", "toggle", <<>>, Luz_is_on(luz), <<>>))
    /\ UNCHANGED <<light, lumiere>>

\* let luz = luz.toggle();   on a Luz<LuzOn>
ToggleLuzOn ==
    /\ Len(calls) < MaxCalls
    /\ luz.marker = "LuzOn"
    /\ luz' = LuzOn_toggle(luz)
    /\ calls' = Append(calls, Call("Luz", "toggle", <<>>, Luz_is_on(luz), <<>>))
    /\ UNCHANGED <<light, lumiere>>

\* let lumiere = lumiere.toggle();   on a Lumiere<LumiereOff>
ToggleLumiereOff ==
    /\ Len(calls) < MaxCalls
    /\ LumiereOff_toggle_receiver(lumiere)
    /\ lumiere' = LumiereOff_toggle(lumiere)
    /\ calls' = Append(calls, Call("Lumiere", "toggle", <<>>,
                                   Lumiere_is_on(lumiere), <<>>))
    /\ UNCHANGED <<light, luz>>

\* let lumiere = lumiere.toggle();   on a Lumiere<LumiereOn>
ToggleLumiereOn ==
    /\ Len(calls) < MaxCalls
    /\ LumiereOn_toggle_receiver(lumiere)
    /\ lumiere' = LumiereOn_toggle(lumiere)
    /\ calls' = Append(calls, Call("Lumiere", "toggle", <<>>,
                                   Lumiere_is_on(lumiere), <<>>))
    /\ UNCHANGED <<light, luz>>

\* lumiere.regulate_intensity(v)
RegulateLumiere(v) ==
    /\ Len(calls) < MaxCalls
    /\ regulate_intensity_receiver(lumiere)
    /\ lumiere' = LumiereOn_regulate_intensity(lumiere, v)
    /\ calls' = Append(calls, Call("Lumiere", "regulate_intensity", <<v>>,
                                   Lumiere_is_on(lumiere), <<>>))
    /\ UNCHANGED <<light, luz>>

\* lumiere.get_intensity()
GetIntensityLumiere ==
    /\ Len(calls) < MaxCalls
    /\ get_intensity_receiver(lumiere)
    /\ calls' = Append(calls, Call("Lumiere", "get_intensity", <<>>,
                                   Lumiere_is_on(lumiere),
                                   <<LumiereOn_get_intensity(lumiere)>>))
    /\ UNCHANGED <<light, luz, lumiere>>

----------------------------------------------------------------------------
(* extensiontraits/src/factorial.rs : impl Factorial for i32 *)

\* the largest factorial argument tried
MaxArg == 13

\* the arguments tried go down to -MaxNeg
MaxNeg == 2

I32Max == 2147483647

I32Min == (-I32Max) - 1

\* whether a + b leaves the i32 range
AddOverflows(a, b) ==
    \/ a > 0 /\ b > 0 /\ a > I32Max - b
    \/ a < 0 /\ b < 0 /\ a < I32Min - b

\* a + b in two's complement, computed inside the i32 range
AddWrap(a, b) ==
    IF a > 0 /\ b > 0 /\ a > I32Max - b
    THEN ((a - I32Max) - 1) + ((b - I32Max) - 1)
    ELSE IF a < 0 /\ b < 0 /\ a < I32Min - b
    THEN ((a + I32Max) + 1) + ((b + I32Max) + 1)
    ELSE a + b

RECURSIVE MulWrap(_, _)
\* a * k in two's complement, for k >= 0, as k wrapping additions
MulWrap(a, k) == IF k = 0 THEN 0 ELSE AddWrap(MulWrap(a, k - 1), a)

RECURSIVE MulOverflows(_, _)
\* whether a * k leaves the i32 range, for k >= 0
MulOverflows(a, k) ==
    IF k <= 1 THEN FALSE
    ELSE MulOverflows(a, k - 1) \/ AddOverflows(MulWrap(a, k - 1), a)

\* faulty variant: the range stops at *self without the + 1
Factorial_range_end_exclusive(x) == x

\* the end of the range 1..((*self) + 1)
Factorial_range_end(x) == x + 1

FactorialInit ==
    /\ self_ \in (-MaxNeg)..MaxArg
    /\ checked \in BOOLEAN
    /\ res = 1
    /\ n = 1
    /\ iters = 0
    /\ pc = "loop"

\* res *= n;  without overflow, or wrapping in a build without overflow checks
FactorialBody ==
    /\ pc = "loop"
    /\ n < Factorial_range_end(self_)
    /\ ~(checked /\ MulOverflows(res, n))
    /\ res' = MulWrap(res, n)
    /\ n' = n + 1
    /\ iters' = iters + 1
    /\ UNCHANGED <<self_, pc, checked>>

\* res *= n;  overflowing in a build with overflow checks: the thread panics
FactorialPanic ==
    /\ pc = "loop"
    /\ n < Factorial_range_end(self_)
    /\ checked /\ MulOverflows(res, n)
    /\ pc' = "panicked"
    /\ UNCHANGED <<self_, res, n, iters, checked>>

\* the range is exhausted: return res
FactorialReturn ==
    /\ pc = "loop"
    /\ ~(n < Factorial_range_end(self_))
    /\ pc' = "done"
    /\ UNCHANGED <<self_, res, n, iters, checked>>

----------------------------------------------------------------------------
(* extensiontraits/src/urgency.rs : impl Urgency for String *)

\* the longest String tried
MaxLen == 2

\* how many Urgency calls a run makes
MaxUrgencyCalls == 3

\* the char '!'
Exclamation == "!"

\* the char U+00A1, the inverted exclamation mark
InvertedExclamation == "U+00A1"

Chars == {"a", Exclamation, InvertedExclamation}

\* the Strings of at most MaxLen chars
Strings == UNION {[1..k -> Chars] : k \in 0..MaxLen}

\* String::push(ch)
String_push(str, ch) == Append(str, ch)

\* String::insert(idx, ch), idx counted in chars
String_insert(str, idx, ch) ==
    SubSeq(str, 1, idx) \o <<ch>> \o SubSeq(str, idx + 1, Len(str))

add_urgency(str) == String_push(str, Exclamation)

\* faulty variant: the inverted mark is inserted at the end instead of at 0
add_urgency_in_spanish_at_end(str) ==
    String_push(String_insert(str, Len(str), InvertedExclamation), Exclamation)

add_urgency_in_spanish(str) ==
    String_push(String_insert(str, 0, InvertedExclamation), Exclamation)

UrgencyInit ==
    /\ s0 \in Strings
    /\ s = s0
    /\ ucalls = <<>>

AddUrgency ==
    /\ Len(ucalls) < MaxUrgencyCalls
    /\ s' = add_urgency(s)
    /\ ucalls' = Append(ucalls, "add_urgency")
    /\ UNCHANGED s0

AddUrgencyInSpanish ==
    /\ Len(ucalls) < MaxUrgencyCalls
    /\ s' = add_urgency_in_spanish(s)
    /\ ucalls' = Append(ucalls, "add_urgency_in_spanish")
    /\ UNCHANGED s0

----------------------------------------------------------------------------
(* builder/src/person.rs : the Person builder *)

\* Option<T>
None == <<>>

Some(v) == <<v>>

\* the arguments tried
Names == {"Hector", "Ana"}

FamilyNames == {"Alarcon"}

Ages == {0, 28}

Phones == {12345678, 600}

Texts == {"Software Engineer", "Spanish"}

OptionalFields ==
    {"phone", "home_address", "job_title", "education", "residency", "nationality"}

\* #[derive(Default)]
Person_default ==
    [name |-> "", family_name |-> "", age |-> 0,
     phone |-> None, home_address |-> None, job_title |-> None,
     education |-> None, residency |-> None, nationality |-> None]

Person_new(name, family_name, age) ==
    [Person_default EXCEPT !.name = name, !.family_name = family_name, !.age = age]

with_phone(p, phone) == [p EXCEPT !.phone = Some(phone)]

with_home_address(p, home_address) == [p EXCEPT !.home_address = Some(home_address)]

with_job_title(p, job_title) == [p EXCEPT !.job_title = Some(job_title)]

with_education(p, education) == [p EXCEPT !.education = Some(education)]

\* faulty variant: a copied setter that still writes the field it was copied from
with_residency_writes_education(p, residency) ==
    [p EXCEPT !.education = Some(residency)]

with_residency(p, residency) == [p EXCEPT !.residency = Some(residency)]

with_nationality(p, nationality) == [p EXCEPT !.nationality = Some(nationality)]

PCall(op, args) == [op |-> op, args |-> args]

PersonInit ==
    \E name \in Names, family_name \in FamilyNames, age \in Ages :
        /\ person = Person_new(name, family_name, age)
        /\ pcall = PCall("new", <<name, family_name, age>>)

WithPhone(v) ==
    /\ person' = with_phone(person, v)
    /\ pcall' = PCall("with_phone", <<v>>)

WithHomeAddress(v) ==
    /\ person' = with_home_address(person, v)
    /\ pcall' = PCall("with_home_address", <<v>>)

WithJobTitle(v) ==
    /\ person' = with_job_title(person, v)
    /\ pcall' = PCall("with_job_title", <<v>>)

WithEducation(v) ==
    /\ person' = with_education(person, v)
    /\ pcall' = PCall("with_education", <<v>>)

WithResidency(v) ==
    /\ person' = with_residency(person, v)
    /\ pcall' = PCall("with_residency", <<v>>)

WithNationality(v) ==
    /\ person' = with_nationality(person, v)
    /\ pcall' = PCall("with_nationality", <<v>>)

----------------------------------------------------------------------------
(* Specifications: one per example program *)

FactorialIdle ==
    /\ self_ = 0
    /\ checked = FALSE
    /\ res = 1
    /\ n = 1
    /\ iters = 0
    /\ pc = "idle"

UrgencyIdle ==
    /\ s0 = <<>>
    /\ s = <<>>
    /\ ucalls = <<>>

PersonIdle ==
    /\ person = Person_default
    /\ pcall = PCall("default", <<>>)

\* typestate
Init == LightInit /\ FactorialIdle /\ UrgencyIdle /\ PersonIdle

Next ==
    \/ ToggleLight /\ UNCHANGED <<factVars, urgVars, personVars>>
    \/ \E v \in Levels : RegulateLight(v) /\ UNCHANGED <<factVars, urgVars, personVars>>
    \/ ToggleLuzOff /\ UNCHANGED <<factVars, urgVars, personVars>>
    \/ ToggleLuzOn /\ UNCHANGED <<factVars, urgVars, personVars>>
    \/ ToggleLumiereOff /\ UNCHANGED <<factVars, urgVars, personVars>>
    \/ ToggleLumiereOn /\ UNCHANGED <<factVars, urgVars, personVars>>
    \/ \E v \in Levels : RegulateLumiere(v) /\ UNCHANGED <<factVars, urgVars, personVars>>
    \/ GetIntensityLumiere /\ UNCHANGED <<factVars, urgVars, personVars>>

Spec == Init /\ [][Next]_vars

\* extensiontraits: factorial
FactorialSpecInit == LightInit /\ FactorialInit /\ UrgencyIdle /\ PersonIdle

FactorialNext ==
    \/ FactorialBody /\ UNCHANGED <<lightVars, urgVars, personVars>>
    \/ FactorialPanic /\ UNCHANGED <<lightVars, urgVars, personVars>>
    \/ FactorialReturn /\ UNCHANGED <<lightVars, urgVars, personVars>>

FactorialSpec == FactorialSpecInit /\ [][FactorialNext]_vars

\* extensiontraits: urgency
UrgencySpecInit == LightInit /\ FactorialIdle /\ UrgencyInit /\ PersonIdle

UrgencyNext ==
    \/ AddUrgency /\ UNCHANGED <<lightVars, factVars, personVars>>
    \/ AddUrgencyInSpanish /\ UNCHANGED <<lightVars, factVars, personVars>>

UrgencySpec == UrgencySpecInit /\ [][UrgencyNext]_vars

\* builder
PersonSpecInit == LightInit /\ FactorialIdle /\ UrgencyIdle /\ PersonInit

PersonNext ==
    \/ \E v \in Phones : WithPhone(v) /\ UNCHANGED <<lightVars, factVars, urgVars>>
    \/ \E v \in Texts : WithHomeAddress(v) /\ UNCHANGED <<lightVars, factVars, urgVars>>
    \/ \E v \in Texts : WithJobTitle(v) /\ UNCHANGED <<lightVars, factVars, urgVars>>
    \/ \E v \in Texts : WithEducation(v) /\ UNCHANGED <<lightVars, factVars, urgVars>>
    \/ \E v \in Texts : WithResidency(v) /\ UNCHANGED <<lightVars, factVars, urgVars>>
    \/ \E v \in Texts : WithNationality(v) /\ UNCHANGED <<lightVars, factVars, urgVars>>

PersonSpec == PersonSpecInit /\ [][PersonNext]_vars

----------------------------------------------------------------------------
(* Properties of the typestate example (Spec) *)

\* the positions in calls of the calls made on target
CallsOn(target) == {i \in DOMAIN calls : calls[i].target = target}

TogglesOn(target) == {i \in CallsOn(target) : calls[i].op = "toggle"}

RegulatesOn(target) == {i \in CallsOn(target) : calls[i].op = "regulate_intensity"}

Odd(k) == k % 2 = 1

SetMax(S) == CHOOSE x \in S : \A y \in S : y <= x

\* the regulate_intensity calls on target among the first k calls that were
\* made after the last toggle on target among them
RegulatesSinceToggle(target, k) ==
    {i \in RegulatesOn(target) :
        /\ i <= k
        /\ \A j \in TogglesOn(target) : j <= k => j < i}

\* after the first k calls: the argument of the last regulate_intensity since
\* the last toggle, or else the default
LastSetOr(target, default, k) ==
    IF RegulatesSinceToggle(target, k) = {} THEN default
    ELSE calls[SetMax(RegulatesSinceToggle(target, k))].args[1]

\* C1: in each variant, after n toggle calls from new(), interleaved with any
\* regulate_intensity calls, is_on() is false when n is even and true when n
\* is odd.
C1_ToggleParity ==
    /\ Light_is_on(light) = Odd(Cardinality(TogglesOn("Light")))
    /\ Luz_is_on(luz) = Odd(Cardinality(TogglesOn("Luz")))
    /\ Lumiere_is_on(lumiere) = Odd(Cardinality(TogglesOn("Lumiere")))

\* the naive light toggled twice with a regulate_intensity in between, and
\* the Luz toggled once
C1_Witness ==
    /\ Cardinality(TogglesOn("Light")) = 2
    /\ \E i \in RegulatesOn("Light") :
          /\ calls[i].pre
          /\ \E j, k \in TogglesOn("Light") : j < i /\ i < k
    /\ Cardinality(TogglesOn("Luz")) = 1
    /\ ~Light_is_on(light)
    /\ Luz_is_on(luz)

\* C2: in the naive Light and in Lumiere, a light that is On has
\* intensity >= 1.
C2_OnIntensityAtLeastOne ==
    /\ Light_is_on(light) => light.intensity >= 1
    /\ Lumiere_is_on(lumiere) => LumiereOn_get_intensity(lumiere) >= 1

\* C3: naive Light: whenever is_on() is false the intensity field is 0, in
\* particular right after new().
C3_OffIntensityZero ==
    /\ ~Light_is_on(light) => light.intensity = 0
    /\ calls = <<>> => ~Light_is_on(light) /\ light.intensity = 0

\* the naive light turned on, regulated to a level other than 0 and 10, and
\* turned off again
C3_Witness ==
    /\ ~Light_is_on(light)
    /\ \E i \in RegulatesOn("Light") :
          /\ calls[i].pre
          /\ calls[i].args[1] = 200
          /\ \E k \in TogglesOn("Light") : i < k

\* C4: naive Light: regulate_intensity(v) on an Off light leaves status and
\* intensity unchanged (off, 0), and returns the same unit value as a call on
\* an On light.
C4_RegulateWhileOffIsNoOp ==
    [][ (/\ Len(calls') = Len(calls) + 1
         /\ calls'[Len(calls')].target = "Light"
         /\ calls'[Len(calls')].op = "regulate_intensity")
        => /\ calls'[Len(calls')].ret = <<>>
           /\ ~Light_is_on(light)
                => /\ light' = light
                   /\ ~Light_is_on(light')
                   /\ light'.intensity = 0 ]_vars

\* the last call regulated the naive light to a nonzero level while it was
\* off, after it had been on
C4_Witness ==
    /\ calls # <<>>
    /\ calls[Len(calls)].target = "Light"
    /\ calls[Len(calls)].op = "regulate_intensity"
    /\ calls[Len(calls)].args[1] = 255
    /\ ~calls[Len(calls)].pre
    /\ Cardinality(TogglesOn("Light")) = 2

\* C5: in the naive Light and in Lumiere, the intensity of an On light is the
\* argument of the last regulate_intensity since the last Off -> On toggle, or
\* else that toggle's default (10 naive, 0 Lumiere); a regulate_intensity on
\* an On light leaves it On.
C5_OnIntensityIsLastSetOrDefault ==
    /\ Light_is_on(light) => light.intensity = LastSetOr("Light", 10, Len(calls))
    /\ Lumiere_is_on(lumiere) =>
          LumiereOn_get_intensity(lumiere) = LastSetOr("Lumiere", 0, Len(calls))
    /\ \A i \in DOMAIN calls :
          calls[i].op = "get_intensity" =>
              calls[i].ret = <<LastSetOr("Lumiere", 0, i - 1)>>
    /\ (/\ calls # <<>>
        /\ calls[Len(calls)].op = "regulate_intensity"
        /\ calls[Len(calls)].pre)
       => IF calls[Len(calls)].target = "Light" THEN Light_is_on(light)
          ELSE Lumiere_is_on(lumiere)

\* Lumiere turned on, regulated twice to different levels, and read
C5_Witness ==
    /\ Len(calls) = 4
    /\ calls[2].target = "Lumiere" /\ calls[2].op = "regulate_intensity"
    /\ calls[2].args = <<200>>
    /\ calls[3].target = "Lumiere" /\ calls[3].op = "regulate_intensity"
    /\ calls[3].args = <<1>>
    /\ calls[4].op = "get_intensity" /\ calls[4].ret = <<1>>

\* C6: toggle(toggle(x)) has the is_on() of x in every variant, and for an On
\* light its intensity is the variant's default (10 naive, 0 Lumiere) whatever
\* level x was regulated to.
C6_ToggleRoundTrip ==
    /\ LET y == Light_toggle(Light_toggle(light))
       IN  /\ Light_is_on(y) = Light_is_on(light)
           /\ Light_is_on(Light_toggle(light)) # Light_is_on(light)
           /\ Light_is_on(light) => y.intensity = 10
    /\ Luz_is_on(Luz_toggle(Luz_toggle(luz))) = Luz_is_on(luz)
    /\ LET y == Lumiere_toggle(Lumiere_toggle(lumiere))
       IN  /\ Lumiere_is_on(y) = Lumiere_is_on(lumiere)
           /\ Lumiere_is_on(lumiere) => LumiereOn_get_intensity(y) = 0

\* both intensity-bearing lights are On and regulated to 200
C6_Witness ==
    /\ Light_is_on(light) /\ light.intensity = 200
    /\ Lumiere_is_on(lumiere) /\ LumiereOn_get_intensity(lumiere) = 200
    /\ Light_toggle(Light_toggle(light)).intensity # light.intensity
    /\ Lumiere_toggle(Lumiere_toggle(lumiere)) # lumiere

----------------------------------------------------------------------------
(* Properties of the factorial example (FactorialSpec) *)

RECURSIVE Product(_)
\* 1 * 2 * ... * k
Product(k) == IF k <= 1 THEN 1 ELSE k * Product(k - 1)

\* C8: for 1 <= n <= 12, n.factorial() returns 1 * 2 * ... * n; for n <= 0
\* the loop body never runs and the result is 1.
C8_FactorialI32 ==
    /\ self_ <= 12 => pc # "panicked"
    /\ (pc = "done" /\ 1 <= self_ /\ self_ <= 12) =>
          /\ res = Product(self_)
          /\ iters = self_
    /\ self_ <= 0 =>
          /\ iters = 0
          /\ pc = "done" => res = 1

\* 12.factorial() has returned 479001600
C8_Witness ==
    /\ pc = "done"
    /\ self_ = 12
    /\ res = 479001600
    /\ iters = 12

----------------------------------------------------------------------------
(* Properties of the urgency example (UrgencySpec) *)

RECURSIVE Expected(_, _)
\* str after the first k calls of ucalls, by concatenation
Expected(str, k) ==
    IF k = 0 THEN str
    ELSE IF ucalls[k] = "add_urgency"
         THEN Expected(str, k - 1) \o <<"!">>
         ELSE <<"U+00A1">> \o Expected(str, k - 1) \o <<"!">>

\* C9: add_urgency changes s to s followed by one '!', so k successive calls
\* append exactly k '!' and keep the original chars in order;
\* add_urgency_in_spanish changes s to the inverted mark, s, '!'.
C9_Urgency ==
    /\ s = Expected(s0, Len(ucalls))
    /\ (\A i \in DOMAIN ucalls : ucalls[i] = "add_urgency") =>
          /\ Len(s) = Len(s0) + Len(ucalls)
          /\ \A i \in 1..Len(s0) : s[i] = s0[i]
          /\ \A i \in (Len(s0) + 1)..Len(s) : s[i] = "!"
    /\ (ucalls # <<>> /\ ucalls[Len(ucalls)] = "add_urgency_in_spanish") =>
          /\ s[1] = "U+00A1"
          /\ s[Len(s)] = "!"
          /\ SubSeq(s, 2, Len(s) - 1) = Expected(s0, Len(ucalls) - 1)

\* a two-char String after add_urgency, add_urgency_in_spanish, add_urgency
C9_Witness ==
    /\ s0 = <<"a", "!">>
    /\ ucalls = <<"add_urgency", "add_urgency_in_spanish", "add_urgency">>
    /\ s = <<"U+00A1", "a", "!", "!", "!", "!">>

----------------------------------------------------------------------------
(* Properties of the builder example (PersonSpec) *)

\* the setter of an optional field
Setter(f, p, v) ==
    CASE f = "phone" -> with_phone(p, v)
      [] f = "home_address" -> with_home_address(p, v)
      [] f = "job_title" -> with_job_title(p, v)
      [] f = "education" -> with_education(p, v)
      [] f = "residency" -> with_residency(p, v)
      [] f = "nationality" -> with_nationality(p, v)

ValuesOf(f) == IF f = "phone" THEN Phones ELSE Texts

\* the optional field a call sets
FieldOf(op) ==
    CASE op = "with_phone" -> "phone"
      [] op = "with_home_address" -> "home_address"
      [] op = "with_job_title" -> "job_title"
      [] op = "with_education" -> "education"
      [] op = "with_residency" -> "residency"
      [] op = "with_nationality" -> "nationality"

\* new(name, family_name, age) sets those fields and leaves the six None
NewSetsThreeFields ==
    pcall.op = "new" =>
        /\ <<person.name, person.family_name, person.age>> = pcall.args
        /\ \A f \in OptionalFields : person[f] = None

\* setters of different fields commute; repeating a setter keeps the last value
SettersCommute ==
    \A f, g \in OptionalFields : \A v \in ValuesOf(f), w \in ValuesOf(g) :
        IF f = g
        THEN Setter(g, Setter(f, person, v), w) = Setter(g, person, w)
        ELSE Setter(g, Setter(f, person, v), w) = Setter(f, Setter(g, person, w), v)

\* a with_X(v) step makes field X Some(v) and changes no other field
SetterFrame ==
    pcall'.op # "new" =>
        /\ person'[FieldOf(pcall'.op)] = <<pcall'.args[1]>>
        /\ \A f \in DOMAIN person : f # FieldOf(pcall'.op) => person'[f] = person[f]
        /\ DOMAIN person' = DOMAIN person

\* C10: Person::new sets name, family_name and age and leaves the six optional
\* fields None; each with_X(v) returns a Person whose field X is Some(v) and
\* whose other fields are unchanged, so setters of different fields commute
\* and a repeated setter keeps the last value.
C10_PersonBuilder ==
    /\ [](NewSetsThreeFields /\ SettersCommute)
    /\ [][SetterFrame]_vars

\* main's chain: job title, phone, nationality set, the rest None
C10_Witness ==
    /\ pcall = PCall("with_nationality", <<"Spanish">>)
    /\ person.name = "Hector" /\ person.age = 28
    /\ person.job_title = Some("Software Engineer")
    /\ person.phone = Some(12345678)
    /\ person.education = None /\ person.residency = None
    /\ person.home_address = None

====
